---- MODULE Spec2Model ----
(***************************************************************************)
(* The semantic-communication store (src/src/store/semanticSlice.ts) and   *)
(* the handlers that drive it: TextInput.handleSubmit, ChannelSimulation.  *)
(* applyNoise, Receiver.handleContinueIteration and the sliders' setters.  *)
(*                                                                         *)
(* One JavaScript task runs to completion; an `await` on an external       *)
(* collaborator is a suspension point.  Every action below is one task:    *)
(* a handler from its start to its first pending external call, or the     *)
(* continuation of an attempt from one response to the next pending call.  *)
(* The three dispatches of the path decision are single steps of one task  *)
(* (variable running), so the store states between them are visible.       *)
(*                                                                         *)
(* Numbers: noiseVariance, similarityThreshold and similarities are in     *)
(* hundredths (the sliders' step is 0.01).  A SemanticVector is kept by    *)
(* its provenance and calibration, not by its components: the text it      *)
(* encodes, the variance of the last noise added (in thousandths), the     *)
(* LOS weight of a combination.                                            *)
(***************************************************************************)
EXTENDS Integers, Sequences, FiniteSets, TLC

VARIABLES
    semantic,         \* state.semantic, the Redux slice
    gemini,           \* the GeminiService singleton's private fields
    similarityCache,  \* semanticEmbedding.ts similarityCache: key -> value
    att,              \* the handler invocations: locals and position
    running,          \* the attempt whose task is between two dispatches, or 0
    latest,           \* the attempt that dispatched processCommunication last, or 0
    lastFinished,     \* history: the attempt that completed last and what it reported
    nextId,           \* the next handler invocation
    settings,         \* the number of settings changed so far
    op,               \* a call of a function or service on its own: which one
    args,             \* its arguments
    out               \* what it returned or threw, or Pending

\* the application: the store, the services' state and the attempts
appVars == <<semantic, gemini, similarityCache, att, running, latest, lastFinished,
            nextId, settings>>

\* one call on its own
callVars == <<op, args, out>>

vars == <<semantic, gemini, similarityCache, att, running, latest, lastFinished,
          nextId, settings, op, args, out>>

-----------------------------------------------------------------------------
(* Bounds *)

\* handler invocations (Transmit, Apply Noise, Continue) in one behaviour
MaxAttempts == 2

\* changes of a setting (a slider, a mode toggle, the API key) in one behaviour
MaxSettings == 2

Attempts == 1..MaxAttempts

-----------------------------------------------------------------------------
(* store/types.ts *)

LOS == "line-of-sight"
RELAY == "relay-assisted"
NONE == "none"
DF == "decode-and-forward"
AF == "amplify-and-forward"

TransmissionMode == {LOS, RELAY}
RelayMode == {DF, AF}
ActivePath == {LOS, RELAY, NONE}

\* null for a SemanticVector | null field
NullVector == [kind |-> "null", of |-> "", variance |-> 0, weight |-> 0]

\* null for semanticSimilarity: number | null
NullSimilarity == -1

-----------------------------------------------------------------------------
(* Inputs *)

\* what the user types into the Transmit box
UserTexts == {"alpha", "beta"}

\* positions of the noise-variance and threshold sliders that are tried
NoiseVariances == {3, 10}
SimilarityThresholds == {0, 70}

\* what the remote sentence-transformer scorer answers
ScorerAnswers == {85}

\* the texts a language model answers with
LlmGuess == "guess"
LlmSummary == "gist"

\* what the bit-channel backend returns for a sent text: a corrupted copy
BitChannelOutputs(sent) == {sent \o "~"}

-----------------------------------------------------------------------------
(* semanticSlice.ts: initialState and the reducers *)

initialState ==
    [ inputText |-> "",
      originalVector |-> NullVector,
      noisyLOSVector |-> NullVector,
      noisyRelayVector |-> NullVector,
      combinedVector |-> NullVector,
      reconstructedText |-> "",
      semanticSummary |-> "",
      noiseVariance |-> 10,
      similarityThreshold |-> 70,
      semanticSimilarity |-> NullSimilarity,
      transmissionMode |-> LOS,
      isLoading |-> FALSE,
      apiKey |-> "",
      bpskNoisyText |-> "",
      bpskReconstructedText |-> "",
      iterationCount |-> 0,
      relayMode |-> DF,
      activePath |-> NONE,
      snrValue |-> 20,           \* dB
      distanceBR |-> 10,         \* metres
      distanceRD |-> 10,
      pathLossExponent |-> 25,   \* tenths
      noisePower |-> 1,          \* milliwatts
      snrThreshold |-> 10 ]      \* hundredths

setInputText(state, payload) == [state EXCEPT !.inputText = payload]
setSemanticSummary(state, payload) == [state EXCEPT !.semanticSummary = payload]
setNoiseVariance(state, payload) == [state EXCEPT !.noiseVariance = payload]
setSimilarityThreshold(state, payload) == [state EXCEPT !.similarityThreshold = payload]
setTransmissionMode(state, payload) == [state EXCEPT !.transmissionMode = payload]
setNoisyLOSVector(state, payload) == [state EXCEPT !.noisyLOSVector = payload]
setNoisyRelayVector(state, payload) == [state EXCEPT !.noisyRelayVector = payload]
setCombinedVector(state, payload) == [state EXCEPT !.combinedVector = payload]
setApiKey(state, payload) == [state EXCEPT !.apiKey = payload]
\* setBPSKResult stores the result and its received_text; bpskResult itself is
\* kept by that text
setBPSKResult(state, received_text) == [state EXCEPT !.bpskNoisyText = received_text]
setBPSKNoisyText(state, payload) == [state EXCEPT !.bpskNoisyText = payload]
setBPSKReconstructedText(state, payload) == [state EXCEPT !.bpskReconstructedText = payload]
setIterationCount(state, payload) == [state EXCEPT !.iterationCount = payload]
setRelayMode(state, payload) == [state EXCEPT !.relayMode = payload]
setActivePath(state, payload) == [state EXCEPT !.activePath = payload]
setSNRValue(state, payload) == [state EXCEPT !.snrValue = payload]
setDistanceBR(state, payload) == [state EXCEPT !.distanceBR = payload]
setDistanceRD(state, payload) == [state EXCEPT !.distanceRD = payload]
setPathLossExponent(state, payload) == [state EXCEPT !.pathLossExponent = payload]
setNoisePower(state, payload) == [state EXCEPT !.noisePower = payload]
setSnrThreshold(state, payload) == [state EXCEPT !.snrThreshold = payload]

\* extraReducers
encodeTextPending(state) == [state EXCEPT !.isLoading = TRUE]
encodeTextFulfilled(state, payload) ==
    [state EXCEPT !.originalVector = payload, !.isLoading = FALSE]
processCommunicationPending(state) == [state EXCEPT !.isLoading = TRUE]
\* a slip: the measured similarity revising the path when the attempt completes
processCommunicationFulfilledRevisingPath(state, payload) ==
    [state EXCEPT !.semanticSimilarity = payload.semanticSimilarity,
                  !.reconstructedText = payload.reconstructedText,
                  !.iterationCount = payload.iterationCount,
                  !.isLoading = FALSE,
                  !.activePath =
                      IF payload.semanticSimilarity < state.similarityThreshold
                      THEN RELAY ELSE LOS]

processCommunicationFulfilled(state, payload) ==
    [state EXCEPT !.semanticSimilarity = payload.semanticSimilarity,
                  !.reconstructedText = payload.reconstructedText,
                  !.iterationCount = payload.iterationCount,
                  !.isLoading = FALSE]
processCommunicationRejected(state) == [state EXCEPT !.isLoading = FALSE]

-----------------------------------------------------------------------------
(* utils/semanticEmbedding.ts *)

Max(a, b) == IF a > b THEN a ELSE b

\* addGaussianNoise(vector, noiseVariance): every component gets its own draw,
\* scaled by the variance; the result encodes the same text. noiseVariance is
\* in thousandths here (the DF relay passes noiseVariance * 0.6).
addGaussianNoise(vector, noiseVariance) ==
    [vector EXCEPT !.kind = "noisy", !.variance = noiseVariance]

\* combineVectors(vector1, vector2, weight1): both vectors of an attempt come
\* from the same originalVector, so their lengths agree and nothing is thrown
combineVectors(vector1, vector2, weight1) ==
    [kind |-> "combined", of |-> vector1.of,
     variance |-> vector2.variance, weight |-> weight1]

\* calculateAdvancedSemanticSimilarity on two one-word texts: each bag-of-words
\* vector is [1] and each advanced vector is [1, 0, 0] (frequency 1, position
\* weight 1 - 2*|1/1 - 0.5| = 0), so 0.3 * 1 + 0.7 * 1 = 1. Every text that
\* reaches the scorer in this model is one word.
calculateAdvancedSemanticSimilarity(text1, text2) == 100

\* the cache key: the sorted pair joined by '|||', kept as the unordered pair
cacheKey(text1, text2) == {text1, text2}

cacheSet(cache, key, value) ==
    [k \in (DOMAIN cache) \cup {key} |-> IF k = key THEN value ELSE cache[k]]

-----------------------------------------------------------------------------
(* services/geminiService.ts *)

NoKey == ""
ApiKeys == {NoKey, "key"}

initialGemini ==
    [ apiKey |-> NoKey,
      lastOriginalText |-> "",
      lastOriginalVector |-> NullVector,
      semanticSummary |-> "",
      mockInputTextMap |-> {} ]   \* the texts whose mock vector's hash is a key

\* getSemanticSummary without a key
MockSummary(text) == "This means: " \o text

\* getSemanticSummary when generateSemanticSummary throws
SummaryOnError(text) == "Generated semantic representation of: \"" \o text \o "\""

\* getMockEmbedding(text): a function of the text alone
getMockEmbedding(text) == [kind |-> "mock", of |-> text, variance |-> 0, weight |-> 0]

\* the embedding the API returns for the text
ApiEmbedding(text) == [kind |-> "api", of |-> text, variance |-> 0, weight |-> 0]

\* introduceMinorErrors on a one-word text: the word, or the word with a
\* letter appended (truncation keeps words of more than three letters apart)
IntroduceMinorErrors(text) == {text, text \o "s"}

\* generateTextFromVector without a key: the text stored under the vector's
\* hash when the noise left the hashed digits alone; else by the cosine
\* similarity to lastOriginalVector (above 0.9 for a noisy copy of it, since
\* the noise is at most 0.32% of the norm per component; between 0.7 and 0.9
\* for the mock vector of another text); else lastOriginalText
MockReconstructions(g, vector) ==
    (IF vector.of \in g.mockInputTextMap THEN {vector.of} ELSE {})
    \cup (IF g.lastOriginalText = "" THEN {"Successfully reconstructed message"}
          ELSE IF g.lastOriginalVector # NullVector /\ g.lastOriginalVector.of # vector.of
          THEN IntroduceMinorErrors(g.lastOriginalText)
          ELSE {g.lastOriginalText})

\* generateTextFromVector with a key and no stored summary: no call is made
ReconstructionWithoutSummary(g) ==
    IF g.lastOriginalText # "" THEN g.lastOriginalText
    ELSE "Message reconstructed successfully"

\* generateTextFromVector's catch
ReconstructionOnError(g) ==
    IF g.lastOriginalText # "" THEN g.lastOriginalText
    ELSE "Error reconstructing text. Please try again."

\* generateTextFromVector with a key, when the model answers: its text, or if
\* that reads like a refusal, lastOriginalText
LlmAnswers == {LlmGuess, "impossible"}
ReconstructionFromAnswer(g, answer) ==
    IF answer = "impossible"
    THEN (IF g.lastOriginalText # "" THEN g.lastOriginalText
          ELSE "Unable to reconstruct the original message")
    ELSE answer

-----------------------------------------------------------------------------
(* The locals of one handler invocation *)

NoConfig ==
    [noiseVariance |-> 0, similarityThreshold |-> 0,
     transmissionMode |-> NONE, relayMode |-> NONE]

NoSnapshot ==
    [inputText |-> "", originalVector |-> NullVector,
     noisyLOSVector |-> NullVector, semanticSummary |-> "",
     noiseVariance |-> 0, similarityThreshold |-> 0,
     transmissionMode |-> NONE, relayMode |-> NONE]

NoResult ==
    [semanticSimilarity |-> NullSimilarity, reconstructedText |-> "",
     iterationCount |-> 0]

IdleAttempt ==
    [ pc |-> "idle",
      isIteration |-> FALSE,
      textToProcess |-> "",
      iterationNumber |-> 0,
      currentState |-> NoSnapshot,      \* the fields read of getState() at line 107
      noisyLOSVector |-> NullVector,
      textToTransmit |-> "",
      bpskNoisyText |-> "",
      useRelay |-> FALSE,               \* the branch taken at line 165
      processedRelayVector |-> NullVector,
      combinedVector |-> NullVector,
      semanticReconstructedText |-> "",
      bpskReconstructedText |-> "",
      failed |-> {},                    \* history: the external calls that failed
      startConfig |-> NoConfig ]        \* history: the configuration at the dispatch

NoneFinished ==
    [id |-> 0, isIteration |-> FALSE, failed |-> {}, rejected |-> FALSE,
     result |-> NoResult]

\* the positions at which an attempt awaits an external collaborator
Awaiting == {"summary", "embedSummary", "embedding", "bpsk", "decode",
             "physRecon", "similarity"}

\* the positions between the dispatches of the path decision
Dispatching == {"setActivePath", "setNoisyRelayVector", "setCombinedVector",
                "decodeVector"}

Finished == {"fulfilled", "rejected"}

\* processCommunication has been dispatched for this invocation
\* (left at an await for good: "stalled" in encodeText, "hung" after it)
Started(a) == a.pc \notin {"idle", "summary", "embedSummary", "embedding", "stalled"}

InFlight(a) == a.pc \notin {"idle"} \cup Finished

\* the fields of the store an attempt reads from currentState
Snapshot(state) ==
    [inputText |-> state.inputText, originalVector |-> state.originalVector,
     noisyLOSVector |-> state.noisyLOSVector,
     semanticSummary |-> state.semanticSummary,
     noiseVariance |-> state.noiseVariance,
     similarityThreshold |-> state.similarityThreshold,
     transmissionMode |-> state.transmissionMode,
     relayMode |-> state.relayMode]

ConfigOf(state) ==
    [noiseVariance |-> state.noiseVariance,
     similarityThreshold |-> state.similarityThreshold,
     transmissionMode |-> state.transmissionMode,
     relayMode |-> state.relayMode]

-----------------------------------------------------------------------------
(* processCommunication, from its last await backwards.  A context c is    *)
(* [s: the store, g: the service, k: the cache, a: the attempt's locals,    *)
(* id: the attempt, f: lastFinished].                                      *)

\* a slip: the bit-channel request outside its try block
BpskErrorUncaught == FALSE

\* the catch blocks of processCommunication and of the services it calls
BpskErrorCaught == TRUE
PhysicalReconstructionErrorCaught == TRUE

Rejected(c) ==
    [c EXCEPT !.s = processCommunicationRejected(c.s),
              !.a = [IdleAttempt EXCEPT !.pc = "rejected"],
              !.f = [id |-> c.id, isIteration |-> c.a.isIteration,
                     failed |-> c.a.failed, rejected |-> TRUE, result |-> NoResult]]

\* lines 273-280 and processCommunication.fulfilled
Fulfilled(c, semanticSimilarity, finalReconstructedText) ==
    LET payload == [semanticSimilarity |-> semanticSimilarity,
                    reconstructedText |-> finalReconstructedText,
                    iterationCount |-> c.a.iterationNumber]
    IN  [c EXCEPT !.s = processCommunicationFulfilled(c.s, payload),
                  !.a = [IdleAttempt EXCEPT !.pc = "fulfilled"],
                  !.f = [id |-> c.id, isIteration |-> c.a.isIteration,
                         failed |-> c.a.failed, rejected |-> FALSE,
                         result |-> payload]]

finalReconstructedText(a) ==
    IF a.bpskReconstructedText # "" THEN a.bpskReconstructedText
    ELSE a.semanticReconstructedText

referenceText(a) ==
    IF a.isIteration THEN a.textToProcess ELSE a.currentState.inputText

\* getCachedModelSimilarity's catch: the local calculation, cached and returned
SimilarityOnError(text1, text2) == calculateAdvancedSemanticSimilarity(text1, text2)

\* lines 248-266, to the scorer's request: a cached pair is answered from the
\* cache, an empty text by 0 (calculateModelBasedSimilarity, cached)
CallSimilarity(c) ==
    LET fin == finalReconstructedText(c.a)
        ref == referenceText(c.a)
        key == cacheKey(ref, fin)
    IN  IF key \in DOMAIN c.k THEN Fulfilled(c, c.k[key], fin)
        ELSE IF ref = "" \/ fin = ""
        THEN Fulfilled([c EXCEPT !.k = cacheSet(c.k, key, 0)], 0, fin)
        ELSE [c EXCEPT !.a.pc = "similarity"]

\* the scorer answered (ok) or failed
AfterSimilarity(c, ok, answer) ==
    LET fin == finalReconstructedText(c.a)
        ref == referenceText(c.a)
        key == cacheKey(ref, fin)
        value == IF ok THEN answer ELSE SimilarityOnError(ref, fin)
        c1 == [c EXCEPT !.k = cacheSet(c.k, key, value),
                        !.a.failed = IF ok THEN @ ELSE @ \cup {"scorer"}]
    IN  Fulfilled(c1, value, fin)

\* lines 229-246: reconstructTextFromPhysicalError is called for a non-empty
\* received text
AfterSemantic(c) ==
    IF c.a.bpskNoisyText # "" THEN [c EXCEPT !.a.pc = "physRecon"]
    ELSE CallSimilarity(c)

AfterPhysicalReconstruction(c, ok, text) ==
    IF ok
    THEN CallSimilarity([c EXCEPT !.a.bpskReconstructedText = text,
                                  !.s = setBPSKReconstructedText(c.s, text)])
    ELSE IF PhysicalReconstructionErrorCaught
    THEN CallSimilarity([c EXCEPT !.a.failed = @ \cup {"physRecon"}])
    ELSE Rejected([c EXCEPT !.a.failed = @ \cup {"physRecon"}])

\* line 226, after decodeVector resolved
AfterDecode(c, text) ==
    AfterSemantic([c EXCEPT !.a.semanticReconstructedText = text])

-----------------------------------------------------------------------------
(* processCommunication: the path decision, lines 158-227 *)

\* line 163, in hundredths
vectorSimilarity(noiseVariance) == Max(0, 100 - noiseVariance * 10)

\* a slip: the comparison of line 165 not strict
UseRelayNotStrict(cs) ==
    vectorSimilarity(cs.noiseVariance) <= cs.similarityThreshold
    /\ cs.transmissionMode = RELAY

\* line 165
UseRelay(cs) ==
    vectorSimilarity(cs.noiseVariance) < cs.similarityThreshold
    /\ cs.transmissionMode = RELAY

\* lines 167-200: DF draws a new noisy copy of originalVector at 0.6 of the
\* variance; AF scales the noisy relay copy by the amplification factor
ProcessedRelayVector(cs) ==
    IF cs.relayMode = DF
    THEN addGaussianNoise(cs.originalVector, cs.noiseVariance * 6)
    ELSE [addGaussianNoise(cs.originalVector, cs.noiseVariance * 10)
            EXCEPT !.kind = "amplified"]

\* line 205, in hundredths
relayWeight(cs) == IF cs.relayMode = DF THEN 60 ELSE 50

\* a slip: the decision reading the store as it is after the await
DecisionStateLive(c) == Snapshot(c.s)

\* the state the decision reads: currentState, taken at line 107
DecisionState(c) == c.a.currentState

\* a slip: the LOS branch leaving the relay vectors as they are
LosBranchKeepsVector(previous) == previous

\* what the LOS branch dispatches for the two relay vectors, lines 221-222
LosBranchVector(previous) == NullVector

\* lines 159-208: the locals of the decision, before its dispatches
Decide(c) ==
    LET cs == DecisionState(c)
        processed == ProcessedRelayVector(cs)
    IN  [c EXCEPT !.a.pc = "setActivePath",
                  !.a.useRelay = UseRelay(cs),
                  !.a.processedRelayVector = processed,
                  !.a.combinedVector =
                      combineVectors(c.a.noisyLOSVector, processed,
                                     100 - relayWeight(cs))]

\* lines 125-153 and on: the bit-channel backend answered (ok) or failed
AfterBpsk(c, ok, received_text) ==
    LET c1 == IF ok
              THEN [c EXCEPT !.a.bpskNoisyText = received_text,
                             !.s = setBPSKNoisyText(setBPSKResult(c.s, received_text),
                                                    received_text)]
              ELSE [c EXCEPT !.a.failed = @ \cup {"bpsk"}]
    IN  IF ~ok /\ ~BpskErrorCaught THEN Rejected(c1)
        ELSE IF ~c.a.isIteration /\ c.a.noisyLOSVector # NullVector THEN Decide(c1)
        ELSE AfterSemantic(c1)

\* lines 211 and 218
DispatchSetActivePath(c) ==
    [c EXCEPT !.s = setActivePath(c.s, IF c.a.useRelay THEN RELAY ELSE LOS),
              !.a.pc = "setNoisyRelayVector"]

\* lines 214 and 221
DispatchSetNoisyRelayVector(c) ==
    [c EXCEPT !.s = setNoisyRelayVector(c.s, IF c.a.useRelay THEN c.a.processedRelayVector
                                              ELSE LosBranchVector(c.s.noisyRelayVector)),
              !.a.pc = "setCombinedVector"]

\* lines 215 and 222
DispatchSetCombinedVector(c) ==
    [c EXCEPT !.s = setCombinedVector(c.s, IF c.a.useRelay THEN c.a.combinedVector
                                           ELSE LosBranchVector(c.s.combinedVector)),
              !.a.pc = "decodeVector"]

vectorToUse(a) == IF a.useRelay THEN a.combinedVector ELSE a.noisyLOSVector

\* line 226: decodeVector calls generateTextFromVector, which answers at once
\* without a key (mockText) and without a stored summary, and else asks the model
DispatchDecodeVector(c, mockText) ==
    IF c.g.apiKey = NoKey THEN AfterDecode(c, mockText)
    ELSE IF c.g.semanticSummary # "" THEN [c EXCEPT !.a.pc = "decode"]
    ELSE AfterDecode(c, ReconstructionWithoutSummary(c.g))

-----------------------------------------------------------------------------
(* processCommunication: lines 80-140, to the bit-channel request *)

\* Both callers of a fresh attempt have originalVector set (handleSubmit awaits
\* encodeText first, Apply Noise is disabled without it), so line 98 is not taken.
StartAttempt(c, paramsText, isIteration, paramsIterationNumber) ==
    LET state == processCommunicationPending(c.s)
        textToProcess == IF paramsText # "" THEN paramsText ELSE state.inputText
        iterationNumber == paramsIterationNumber
        s1 == setIterationCount(state, IF isIteration THEN iterationNumber ELSE 0)
        currentState == IF ~isIteration THEN setInputText(s1, textToProcess) ELSE s1
        encodes == ~isIteration /\ currentState.originalVector # NullVector
        noisyLOSVector ==
            IF encodes
            THEN addGaussianNoise(currentState.originalVector,
                                  currentState.noiseVariance * 10)
            ELSE currentState.noisyLOSVector
        s3 == IF encodes THEN setNoisyLOSVector(currentState, noisyLOSVector)
              ELSE currentState
        textToTransmit ==
            IF isIteration THEN textToProcess
            ELSE IF currentState.semanticSummary # "" THEN currentState.semanticSummary
            ELSE textToProcess
    IN  [c EXCEPT !.s = s3,
                  !.a = [IdleAttempt EXCEPT !.pc = "bpsk",
                                            !.isIteration = isIteration,
                                            !.textToProcess = textToProcess,
                                            !.iterationNumber = iterationNumber,
                                            !.currentState = Snapshot(currentState),
                                            !.noisyLOSVector = noisyLOSVector,
                                            !.textToTransmit = textToTransmit,
                                            !.failed = c.a.failed,
                                            !.startConfig = ConfigOf(c.s)]]

-----------------------------------------------------------------------------
(* TextInput.handleSubmit: encodeText, then processCommunication *)

\* encodeText.fulfilled, then handleSubmit dispatches processCommunication({text})
EncodeFulfilled(c, vector) ==
    StartAttempt([c EXCEPT !.s = encodeTextFulfilled(c.s, vector)],
                 c.a.textToProcess, FALSE, 0)

\* getEmbedding's mock branch, geminiService.ts lines 53-61
EmbedMock(c) ==
    LET text == c.a.textToProcess
        mockVector == getMockEmbedding(text)
    IN  EncodeFulfilled([c EXCEPT !.g.mockInputTextMap = @ \cup {text},
                                  !.g.lastOriginalVector = mockVector],
                        mockVector)

\* getEmbedding's request answered (ok) or failed: the catch returns the mock vector
AfterEmbedding(c, ok) ==
    EncodeFulfilled([c EXCEPT !.a.failed = IF ok THEN @ ELSE @ \cup {"embedding"}],
                    IF ok THEN ApiEmbedding(c.a.textToProcess)
                    ELSE getMockEmbedding(c.a.textToProcess))

\* getEmbedding's own summary request answered or failed; the key is read again
AfterEmbedSummary(c, ok) ==
    LET c1 == IF ok THEN [c EXCEPT !.g.semanticSummary = LlmSummary]
              ELSE [c EXCEPT !.a.failed = @ \cup {"embedSummary"}]
    IN  IF c1.g.apiKey = NoKey THEN EmbedMock(c1)
        ELSE [c1 EXCEPT !.a.pc = "embedding"]

\* getEmbedding(text), lines 36-50
GetEmbedding(c) ==
    LET c1 == [c EXCEPT !.g.lastOriginalText = c.a.textToProcess]
    IN  IF c1.g.apiKey # NoKey THEN [c1 EXCEPT !.a.pc = "embedSummary"]
        ELSE EmbedMock(c1)

\* encodeText line 56, with the summary getSemanticSummary resolved to
AfterSummary(c, summary) ==
    GetEmbedding([c EXCEPT !.s = setSemanticSummary(c.s, summary)])

\* handleSubmit lines 19-25 and encodeText line 55
Submit(c, localText) ==
    LET c1 == [c EXCEPT !.s = encodeTextPending(setInputText(c.s, localText)),
                        !.a = [IdleAttempt EXCEPT !.textToProcess = localText]]
    IN  IF c1.g.apiKey = NoKey THEN AfterSummary(c1, MockSummary(localText))
        ELSE [c1 EXCEPT !.a.pc = "summary"]

-----------------------------------------------------------------------------
(* The actions *)

Ctx(a) ==
    [s |-> semantic, g |-> gemini, k |-> similarityCache, a |-> att[a],
     id |-> a, f |-> lastFinished]

\* the task of attempt a ends in context c
Commit(a, c) ==
    /\ semantic' = c.s
    /\ gemini' = c.g
    /\ similarityCache' = c.k
    /\ att' = [att EXCEPT ![a] = c.a]
    /\ running' = IF c.a.pc \in Dispatching THEN a ELSE 0
    /\ latest' = IF Started(c.a) /\ ~Started(att[a]) THEN a ELSE latest
    /\ lastFinished' = c.f
    /\ UNCHANGED callVars

Failing(c, ok, call) == [c EXCEPT !.a.failed = IF ok THEN @ ELSE @ \cup {call}]

\* Receiver.tsx line 25
storeFinalReconstructedText ==
    IF semantic.bpskReconstructedText # "" THEN semantic.bpskReconstructedText
    ELSE semantic.reconstructedText

\* TextInput: the Transmit button, disabled while isLoading
HandleSubmit(localText) ==
    /\ running = 0
    /\ nextId <= MaxAttempts
    /\ ~semantic.isLoading
    /\ Commit(nextId, Submit(Ctx(nextId), localText))
    /\ nextId' = nextId + 1
    /\ UNCHANGED settings

\* ChannelSimulation: the Apply Noise button, disabled while isLoading or
\* without originalVector; processCommunication() has no params
ApplyNoise ==
    /\ running = 0
    /\ nextId <= MaxAttempts
    /\ ~semantic.isLoading
    /\ semantic.originalVector # NullVector
    /\ Commit(nextId, StartAttempt(Ctx(nextId), "", FALSE, 0))
    /\ nextId' = nextId + 1
    /\ UNCHANGED settings

\* a slip: Continue going through handleSubmit, which encodes the text again
HandleContinueIterationEncoding ==
    /\ running = 0
    /\ nextId <= MaxAttempts
    /\ storeFinalReconstructedText # ""
    /\ Commit(nextId, Submit(Ctx(nextId), storeFinalReconstructedText))
    /\ nextId' = nextId + 1
    /\ UNCHANGED settings

\* a slip: handleContinueIteration without its guard
canAlwaysContinue == TRUE

\* Receiver.handleContinueIteration returns at once without a text to continue from
canContinue == storeFinalReconstructedText # ""

\* Receiver: the Continue to iterate button
HandleContinueIteration ==
    /\ running = 0
    /\ nextId <= MaxAttempts
    /\ canContinue
    /\ Commit(nextId, StartAttempt(Ctx(nextId), storeFinalReconstructedText, TRUE,
                                   semantic.iterationCount + 1))
    /\ nextId' = nextId + 1
    /\ UNCHANGED settings

Responds(a, pc) ==
    /\ running = 0
    /\ att[a].pc = pc
    /\ UNCHANGED <<nextId, settings>>

SummaryResponse(a) ==
    /\ Responds(a, "summary")
    /\ \E ok \in BOOLEAN :
          Commit(a, AfterSummary(Failing(Ctx(a), ok, "summary"),
                                 IF ok THEN LlmSummary
                                 ELSE SummaryOnError(att[a].textToProcess)))

EmbedSummaryResponse(a) ==
    /\ Responds(a, "embedSummary")
    /\ \E ok \in BOOLEAN : Commit(a, AfterEmbedSummary(Ctx(a), ok))

EmbeddingResponse(a) ==
    /\ Responds(a, "embedding")
    /\ \E ok \in BOOLEAN : Commit(a, AfterEmbedding(Ctx(a), ok))

BpskResponse(a) ==
    /\ Responds(a, "bpsk")
    /\ \/ \E received_text \in BitChannelOutputs(att[a].textToTransmit) :
             Commit(a, AfterBpsk(Ctx(a), TRUE, received_text))
       \/ Commit(a, AfterBpsk(Ctx(a), FALSE, ""))

\* one dispatch of the running task
Dispatch(a) ==
    /\ running = a
    /\ UNCHANGED <<nextId, settings>>
    /\ \/ /\ att[a].pc = "setActivePath"
          /\ Commit(a, DispatchSetActivePath(Ctx(a)))
       \/ /\ att[a].pc = "setNoisyRelayVector"
          /\ Commit(a, DispatchSetNoisyRelayVector(Ctx(a)))
       \/ /\ att[a].pc = "setCombinedVector"
          /\ Commit(a, DispatchSetCombinedVector(Ctx(a)))
       \/ /\ att[a].pc = "decodeVector"
          /\ \E mockText \in MockReconstructions(gemini, vectorToUse(att[a])) :
                Commit(a, DispatchDecodeVector(Ctx(a), mockText))

DecodeResponse(a) ==
    /\ Responds(a, "decode")
    /\ \/ \E answer \in LlmAnswers :
             Commit(a, AfterDecode(Ctx(a), ReconstructionFromAnswer(gemini, answer)))
       \/ Commit(a, AfterDecode(Failing(Ctx(a), FALSE, "decode"),
                                ReconstructionOnError(gemini)))

\* reconstructTextFromPhysicalError answers with the original text or a guess
PhysicalReconstructionResponse(a) ==
    /\ Responds(a, "physRecon")
    /\ \/ \E text \in {referenceText(att[a]), LlmGuess} :
             Commit(a, AfterPhysicalReconstruction(Ctx(a), TRUE, text))
       \/ Commit(a, AfterPhysicalReconstruction(Ctx(a), FALSE, ""))

SimilarityResponse(a) ==
    /\ Responds(a, "similarity")
    /\ \/ \E answer \in ScorerAnswers : Commit(a, AfterSimilarity(Ctx(a), TRUE, answer))
       \/ Commit(a, AfterSimilarity(Ctx(a), FALSE, 0))

\* no request carries a timeout: a collaborator that never answers leaves the
\* attempt at its await for good; its locals are never read again
CollaboratorNeverResponds(a) ==
    /\ running = 0
    /\ att[a].pc \in Awaiting
    /\ att' = [att EXCEPT ![a] = [IdleAttempt EXCEPT
                                     !.pc = IF Started(att[a]) THEN "hung" ELSE "stalled"]]
    /\ UNCHANGED <<semantic, gemini, similarityCache, running, latest,
                   lastFinished, nextId, settings, callVars>>

\* the sliders and toggles
Set(state) ==
    /\ running = 0
    /\ settings < MaxSettings
    /\ state # semantic
    /\ semantic' = state
    /\ settings' = settings + 1
    /\ UNCHANGED <<gemini, similarityCache, att, running, latest, lastFinished, nextId,
                   callVars>>

SetNoiseVariance == \E v \in NoiseVariances : Set(setNoiseVariance(semantic, v))
SetSimilarityThreshold ==
    \E v \in SimilarityThresholds : Set(setSimilarityThreshold(semantic, v))
SetTransmissionMode == \E m \in TransmissionMode : Set(setTransmissionMode(semantic, m))
SetRelayMode == \E m \in RelayMode : Set(setRelayMode(semantic, m))

\* ModelSettings: setApiKey also hands the key to the service
SetApiKey ==
    \E key \in ApiKeys :
        /\ running = 0
        /\ settings < MaxSettings
        /\ key # semantic.apiKey
        /\ semantic' = setApiKey(semantic, key)
        /\ gemini' = [gemini EXCEPT !.apiKey = key]
        /\ settings' = settings + 1
        /\ UNCHANGED <<similarityCache, att, running, latest, lastFinished, nextId, callVars>>

AttemptStep(a) ==
    \/ SummaryResponse(a)
    \/ EmbedSummaryResponse(a)
    \/ EmbeddingResponse(a)
    \/ BpskResponse(a)
    \/ Dispatch(a)
    \/ DecodeResponse(a)
    \/ PhysicalReconstructionResponse(a)
    \/ SimilarityResponse(a)

\* no call on its own is under way
NoCall == "none"
Pending == [threw |-> FALSE, returned |-> FALSE, value |-> <<>>]

InitApp ==
    /\ semantic = initialState
    /\ gemini = initialGemini
    /\ similarityCache = [key \in {} |-> 0]
    /\ att = [a \in Attempts |-> IdleAttempt]
    /\ running = 0
    /\ latest = 0
    /\ lastFinished = NoneFinished
    /\ nextId = 1
    /\ settings = 0

Init ==
    /\ InitApp
    /\ op = NoCall
    /\ args = <<>>
    /\ out = Pending

Next ==
    \/ \E localText \in UserTexts : HandleSubmit(localText)
    \/ ApplyNoise
    \/ HandleContinueIteration
    \/ \E a \in Attempts : AttemptStep(a)
    \/ \E a \in Attempts : CollaboratorNeverResponds(a)
    \/ SetNoiseVariance
    \/ SetSimilarityThreshold
    \/ SetTransmissionMode
    \/ SetRelayMode
    \/ SetApiKey

Spec == Init /\ [][Next]_vars

-----------------------------------------------------------------------------
(* Properties *)

\* the decision rule of section 4.5, from the configuration at the attempt's start
RelayDue(config) ==
    /\ config.transmissionMode = RELAY
    /\ Max(0, 100 - 10 * config.noiseVariance) < config.similarityThreshold

\* attempt a completes in this step
Completes(a) == Started(att[a]) /\ InFlight(att[a]) /\ att'[a].pc \in Finished

\* a fresh attempt is dispatched in this step
FreshStarts == latest' # latest /\ ~att'[latest'].isIteration

\* C1: an attempt, fresh or iterating, that started in LOS mode and completes
\* while transmissionMode is LOS leaves activePath = LOS.
C1_LosModeCompletesOnLos ==
    [][\A a \in Attempts :
          (/\ Completes(a)
           /\ att[a].startConfig.transmissionMode = LOS
           /\ semantic'.transmissionMode = LOS)
          => semantic'.activePath = LOS]_vars

\* C2: after the path decision of a fresh attempt, activePath is RELAY exactly
\* when the attempt's transmissionMode is RELAY and max(0, 1 - 10 * noiseVariance)
\* is strictly below similarityThreshold, and then both relay vectors are set;
\* otherwise activePath is LOS and both are null, whatever activePath and
\* relayMode were before.
C2_PathDecision ==
    \A a \in Attempts :
        att[a].pc = "decodeVector" =>
            IF RelayDue(att[a].startConfig)
            THEN /\ semantic.activePath = RELAY
                 /\ semantic.noisyRelayVector # NullVector
                 /\ semantic.combinedVector # NullVector
            ELSE /\ semantic.activePath = LOS
                 /\ semantic.noisyRelayVector = NullVector
                 /\ semantic.combinedVector = NullVector

\* the strict comparison decides: in RELAY mode with the quality equal to the
\* threshold the attempt stays on LOS
C2_Witness ==
    \E a \in Attempts :
        /\ att[a].pc = "decodeVector"
        /\ att[a].startConfig.transmissionMode = RELAY
        /\ Max(0, 100 - 10 * att[a].startConfig.noiseVariance)
              = att[a].startConfig.similarityThreshold
        /\ semantic.activePath = LOS

RelayVectorsIffRelayPath ==
    (semantic.noisyRelayVector # NullVector /\ semantic.combinedVector # NullVector)
        <=> semantic.activePath = RELAY

\* C3 as stated: in every reachable store state, between single dispatches
\* too, both relay vectors are non-null exactly when activePath is RELAY.
C3_Original == RelayVectorsIffRelayPath

\* C3: both relay vectors are non-null exactly when activePath is RELAY, in
\* every store state except those after an attempt's setActivePath dispatch
\* and before its setCombinedVector dispatch.
C3_RelayVectorsIffRelayPath ==
    (\A a \in Attempts : att[a].pc \notin {"setNoisyRelayVector", "setCombinedVector"})
        => RelayVectorsIffRelayPath

\* a completed attempt took the relay path and the store shows both vectors
C3_Witness ==
    /\ running = 0
    /\ lastFinished.id # 0
    /\ semantic.activePath = RELAY
    /\ semantic.noisyRelayVector # NullVector
    /\ semantic.combinedVector # NullVector

\* C4: whenever a completed attempt has reported a non-empty reconstructedText,
\* activePath is LOS or RELAY.
C4_ReportedTextHasPath ==
    (semantic.reconstructedText # ""
     \/ (lastFinished.id # 0 /\ lastFinished.result.reconstructedText # ""))
        => semantic.activePath \in {LOS, RELAY}

\* an iterating attempt, which takes no path decision, has reported a text
C4_Witness ==
    /\ lastFinished.id # 0
    /\ lastFinished.isIteration
    /\ lastFinished.result.reconstructedText # ""
    /\ semantic.reconstructedText = lastFinished.result.reconstructedText

\* C5: a fresh attempt stores iterationCount 0 and an iterating attempt the
\* previous count + 1, so that the stored iterationCount goes down only when
\* a fresh attempt starts, under every interleaving of starts and completions.
C5_IterationCountIncreases ==
    [][/\ (latest' # latest =>
              semantic'.iterationCount =
                  IF att'[latest'].isIteration THEN semantic.iterationCount + 1 ELSE 0)
       /\ (semantic'.iterationCount < semantic.iterationCount => FreshStarts)]_vars

\* C6: whatever external calls fail, no attempt is rejected: the attempt is
\* fulfilled, and with no attempt left in flight isLoading is false.
C6_NeverRejected ==
    /\ \A a \in Attempts : att[a].pc # "rejected"
    /\ ~lastFinished.rejected
    /\ (\A a \in Attempts : ~InFlight(att[a])) => ~semantic.isLoading

\* an attempt was fulfilled after both the bit channel and the scorer had failed
C6_Witness ==
    /\ lastFinished.id # 0
    /\ {"bpsk", "scorer"} \subseteq lastFinished.failed
    /\ att[lastFinished.id].pc = "fulfilled"
    /\ ~semantic.isLoading

\* the texts generateTextFromVector returns to say that it failed
FailureMarkers ==
    {"Error reconstructing text. Please try again.",
     "Unable to reconstruct the original message"}

\* C7: if the reconstructor or the scorer failed, the attempt's result is not
\* null and is marked: semanticSimilarity is 0 or reconstructedText is a
\* failure marker.
C7_DegradedIsMarked ==
    (lastFinished.id # 0 /\ lastFinished.failed \cap {"decode", "scorer"} # {})
        => /\ lastFinished.result.semanticSimilarity # NullSimilarity
           /\ \/ lastFinished.result.semanticSimilarity = 0
              \/ lastFinished.result.reconstructedText \in FailureMarkers

C9_NewerSupersedes ==
    [][\A a \in Attempts :
          (Completes(a) /\ a # latest /\ att[latest].pc \in Finished)
          => /\ semantic'.semanticSimilarity = semantic.semanticSimilarity
             /\ semantic'.reconstructedText = semantic.reconstructedText
             /\ semantic'.iterationCount = semantic.iterationCount]_vars

\* every collaborator that answers is answered to
FairSpec == Spec /\ \A a \in Attempts : WF_vars(AttemptStep(a))

\* C10: every external call is bounded by a timeout, so every started attempt
\* eventually completes, even if a collaborator never responds.
C10_EveryAttemptCompletes ==
    \A a \in Attempts :
        (Started(att[a]) /\ InFlight(att[a])) ~> (att[a].pc \in Finished)

-----------------------------------------------------------------------------
(* The store on its own: its action creators are exported, and a caller of  *)
(* the store may dispatch any number                                        *)

\* payloads in hundredths, metres and milliwatts, in and out of range
NoiseVariancePayloads == {-10, 10, 150}
SimilarityThresholdPayloads == {-10, 70, 150}
DistancePayloads == {-5, 0, 10}
NoisePowerPayloads == {-1, 0, 1}

DispatchSetNoiseVariance ==
    \E payload \in NoiseVariancePayloads : Set(setNoiseVariance(semantic, payload))
DispatchSetSimilarityThreshold ==
    \E payload \in SimilarityThresholdPayloads :
        Set(setSimilarityThreshold(semantic, payload))
DispatchSetDistanceBR ==
    \E payload \in DistancePayloads : Set(setDistanceBR(semantic, payload))
DispatchSetDistanceRD ==
    \E payload \in DistancePayloads : Set(setDistanceRD(semantic, payload))
DispatchSetNoisePower ==
    \E payload \in NoisePowerPayloads : Set(setNoisePower(semantic, payload))

\* without an API key the attempt awaits the bit channel, the physical
\* reconstruction and the scorer only
StoreNext ==
    \/ \E localText \in UserTexts : HandleSubmit(localText)
    \/ ApplyNoise
    \/ \E a \in Attempts : BpskResponse(a)
    \/ \E a \in Attempts : Dispatch(a)
    \/ \E a \in Attempts : PhysicalReconstructionResponse(a)
    \/ \E a \in Attempts : SimilarityResponse(a)
    \/ DispatchSetNoiseVariance
    \/ DispatchSetSimilarityThreshold
    \/ DispatchSetDistanceBR
    \/ DispatchSetDistanceRD
    \/ DispatchSetNoisePower

StoreSpec == Init /\ [][StoreNext]_vars

\* the ranges of section 7: distances and noise power positive, threshold and
\* noise variance in [0, 1]
InRange(state) ==
    /\ state.distanceBR > 0
    /\ state.distanceRD > 0
    /\ state.noisePower > 0
    /\ state.similarityThreshold >= 0 /\ state.similarityThreshold <= 100
    /\ state.noiseVariance >= 0 /\ state.noiseVariance <= 100

\* C11: an attempt is never started with an out-of-range configuration: when
\* processCommunication is dispatched, distances and noise power are positive
\* and similarityThreshold and noiseVariance lie in [0, 1].
C11_StartsInRange ==
    [][latest' # latest => InRange(semantic)]_vars

-----------------------------------------------------------------------------
(* utils/semanticEmbedding.ts and geminiService.ts on the components of a   *)
(* vector.  A SemanticVector is a sequence of integers; a weight is in      *)
(* hundredths, so a combined component is in hundredths too.                *)

\* the longest vector tried
MaxDim == 2

Components == {-1, 0, 2}
Vectors == UNION {[1..n -> Components] : n \in 0..MaxDim}

\* the weight1 argument: omitted, or given
WeightArgs == {<<>>, <<0>>, <<25>>, <<100>>}

Threw(message) == [threw |-> TRUE, returned |-> FALSE, value |-> message]
Return(value) == [threw |-> FALSE, returned |-> TRUE, value |-> value]

DimensionError == Threw("Vectors must have the same dimensions")

RECURSIVE Sum(_, _)
Sum(f, n) == IF n = 0 THEN 0 ELSE f[n] + Sum(f, n - 1)

dotProduct(vectorA, vectorB, length) ==
    Sum([i \in 1..length |-> vectorA[i] * vectorB[i]], length)

\* the parameter default of line 67
DefaultWeight1 == 50

\* a slip: the second vector weighted like the first
weight2Same(weight1) == weight1

\* line 73
weight2(weight1) == 100 - weight1

\* combineVectors(vector1, vector2, weight1 = 0.5), lines 64-76
combineVectorsOnComponents(vector1, vector2, weightArg) ==
    LET weight1 == IF weightArg = <<>> THEN DefaultWeight1 ELSE weightArg[1]
    IN  IF Len(vector1) # Len(vector2) THEN DimensionError
        ELSE Return([index \in 1..Len(vector1) |->
                        vector1[index] * weight1 + vector2[index] * weight2(weight1)])

\* a cosine is kept as its dot product and the two squared magnitudes
Cosine(dot, squareA, squareB) ==
    [dotProduct |-> dot, squareA |-> squareA, squareB |-> squareB]
Zero == Cosine(0, 1, 1)

\* calculateCosineSimilarity of the utilities, lines 11-26
calculateCosineSimilarity(vectorA, vectorB) ==
    IF Len(vectorA) # Len(vectorB) THEN DimensionError
    ELSE LET squareA == dotProduct(vectorA, vectorA, Len(vectorA))
             squareB == dotProduct(vectorB, vectorB, Len(vectorB))
         IN  IF squareA = 0 \/ squareB = 0 THEN Return(Zero)
             ELSE Return(Cosine(dotProduct(vectorA, vectorB, Len(vectorA)),
                                squareA, squareB))

Min(a, b) == IF a < b THEN a ELSE b

\* GeminiService.calculateCosineSimilarity, geminiService.ts lines 320-337:
\* the loop runs over the smaller length
geminiCalculateCosineSimilarity(vectorA, vectorB) ==
    LET length == Min(Len(vectorA), Len(vectorB))
        normA == dotProduct(vectorA, vectorA, length)
        normB == dotProduct(vectorB, vectorB, length)
    IN  IF normA = 0 \/ normB = 0 THEN Return(Zero)
        ELSE Return(Cosine(dotProduct(vectorA, vectorB, length), normA, normB))

\* the integer part of a square root
ISqrt(n) == CHOOSE r \in 0..n : r * r <= n /\ n < (r + 1) * (r + 1)

\* Math.random() in hundredths, and what lines 45-48 make of two draws:
\* sqrt(-2 ln max(u1, 1e-7)) in hundredths and cos(2 pi u2)
Uniform1 == {0, 37, 61}
Uniform2 == {0, 25, 50}
Draws == Uniform1 \X Uniform2
radius(u1) == CASE u1 = 0 -> 568 [] u1 = 37 -> 141 [] u1 = 61 -> 100
cosine(u2) == CASE u2 = 0 -> 1 [] u2 = 25 -> 0 [] u2 = 50 -> -1
z0(draw) == radius(draw[1]) * cosine(draw[2])

\* noiseVariance in hundredths
NoiseVarianceArgs == {0, 10, 40}

\* a slip: a floor under the variance
scaledVarianceFloored(noiseVariance) ==
    IF noiseVariance * 10 < 100 THEN 100 ELSE noiseVariance * 10

\* line 37, in ten-thousandths
scaledVariance(noiseVariance) == noiseVariance * 10

\* lines 40-41, in tenths (the 0.01 of scaleFactor is in NoiseUnit)
vectorMagnitude(vector) == ISqrt(100 * dotProduct(vector, vector, Len(vector)))

\* one unit of a noisy component: value, z0 in hundredths, the deviation in
\* hundredths, the magnitude in tenths and the scale factor's hundredth
NoiseUnit == 10000000

\* addGaussianNoise(vector, noiseVariance), lines 34-55; draws[i] are the two
\* Math.random() results of component i
addGaussianNoiseOnComponents(vector, noiseVariance, draws) ==
    Return([i \in 1..Len(vector) |->
              vector[i] * NoiseUnit
              + z0(draws[i]) * ISqrt(scaledVariance(noiseVariance))
                * vectorMagnitude(vector)])

Completed(o) == o.threw \/ o.returned

\* A call of one utility on its own.
UtilOps == {"combineVectors", "calculateCosineSimilarity",
            "geminiCalculateCosineSimilarity", "addGaussianNoise"}

UtilArgs(o) ==
    CASE o = "combineVectors" -> Vectors \X Vectors \X WeightArgs
      [] o = "addGaussianNoise" ->
            UNION {{<<v, nv, d>> : nv \in NoiseVarianceArgs, d \in [1..Len(v) -> Draws]}
                   : v \in Vectors}
      [] OTHER -> Vectors \X Vectors

UtilInit ==
    /\ InitApp
    /\ op \in UtilOps
    /\ args \in UtilArgs(op)
    /\ out = Pending

Call(o, result) ==
    /\ op = o
    /\ ~Completed(out)
    /\ out' = result
    /\ UNCHANGED <<appVars, op, args>>

CallCombineVectors ==
    Call("combineVectors", combineVectorsOnComponents(args[1], args[2], args[3]))
CallCalculateCosineSimilarity ==
    Call("calculateCosineSimilarity", calculateCosineSimilarity(args[1], args[2]))
CallGeminiCalculateCosineSimilarity ==
    Call("geminiCalculateCosineSimilarity",
         geminiCalculateCosineSimilarity(args[1], args[2]))
CallAddGaussianNoise ==
    Call("addGaussianNoise", addGaussianNoiseOnComponents(args[1], args[2], args[3]))

UtilNext ==
    \/ CallCombineVectors
    \/ CallCalculateCosineSimilarity
    \/ CallGeminiCalculateCosineSimilarity
    \/ CallAddGaussianNoise

UtilSpec == UtilInit /\ [][UtilNext]_vars

\* C12: a completed combineVectors(A, B, w) on vectors of one length returns
\* a vector of A's length whose i-th component is w*A[i] + (1-w)*B[i], with
\* w = 0.5 when the weight is omitted.
C12_WeightedCombination ==
    (op = "combineVectors" /\ Completed(out) /\ Len(args[1]) = Len(args[2])) =>
        LET w == IF args[3] = <<>> THEN 50 ELSE args[3][1]
        IN  /\ out.returned
            /\ Len(out.value) = Len(args[1])
            /\ \A i \in 1..Len(args[1]) :
                  out.value[i] = w * args[1][i] + (100 - w) * args[2][i]

\* an uneven weight applied to two different non-empty vectors
C12_Witness ==
    /\ op = "combineVectors" /\ out.returned
    /\ Len(args[1]) = MaxDim /\ args[1] # args[2]
    /\ args[3] = <<25>>

\* C13: every operation on two vectors fails with an error when the lengths
\* differ.
C13_LengthMismatchThrows ==
    (op \in {"combineVectors", "calculateCosineSimilarity",
             "geminiCalculateCosineSimilarity"}
     /\ Completed(out) /\ Len(args[1]) # Len(args[2])) => out.threw

\* C14: addGaussianNoise(v, 0) returns a vector equal to v, whatever the
\* uniform draws.
C14_NoNoiseAtZeroVariance ==
    (op = "addGaussianNoise" /\ Completed(out) /\ args[2] = 0) =>
        /\ out.returned
        /\ out.value = [i \in 1..Len(args[1]) |-> args[1][i] * NoiseUnit]

\* zero variance on a vector of non-zero magnitude, with the largest draw
C14_Witness ==
    /\ op = "addGaussianNoise" /\ out.returned /\ args[2] = 0
    /\ Len(args[1]) = MaxDim /\ args[1][1] # 0
    /\ args[3][1] = <<0, 0>>

-----------------------------------------------------------------------------
(* components/relay/RelayPerformance.tsx: the metrics evaluator.  The       *)
(* component's dfMetrics and afMetrics are kept in out; probabilities are   *)
(* in thousandths, an inverse SNR in millionths, a capacity in whole bits.  *)

RECURSIVE Pow(_, _)
Pow(b, e) == IF e = 0 THEN 1 ELSE b * Pow(b, e - 1)

RECURSIVE RootBetween(_, _, _)
RootBetween(n, lo, hi) ==
    IF lo = hi THEN lo
    ELSE LET mid == (lo + hi + 1) \div 2
         IN  IF mid * mid <= n THEN RootBetween(n, mid, hi)
             ELSE RootBetween(n, lo, mid - 1)

\* line 57: Math.pow(10, snrValue / 10), for whole tens of dB
snrLinear(snrValue) == Pow(10, snrValue \div 10)

\* lines 60-61: 1 / Math.pow(distance, -pathLossExponent), the exponent in
\* tenths and whole or half
pathLoss(distance, exponent) ==
    LET whole == Pow(distance, exponent \div 10)
    IN  IF exponent % 10 = 5
        THEN (whole * RootBetween(distance * 10000, 0, distance * 100)) \div 100
        ELSE whole

\* lines 97-98: noise / (power * snr), the inverse of snrBR or snrRD
inverseSnr(distance, state) ==
    (state.noisePower * pathLoss(distance, state.pathLossExponent) * 1000)
        \div snrLinear(state.snrValue)

\* lines 100-108: the inverse of snrDF = min(snrBR, snrRD) and of
\* snrAF = snrBR * snrRD / (snrBR + snrRD + 1)
inverseEffectiveSnr(mode, state) ==
    LET invBR == inverseSnr(state.distanceBR, state)
        invRD == inverseSnr(state.distanceRD, state)
    IN  IF mode = "df" THEN Max(invBR, invRD)
        ELSE invBR + invRD + (invBR \div 1000) * (invRD \div 1000)

\* 1 - Math.exp(-x), x and the result in thousandths, interpolated
ExpPoints == <<<<0, 0>>, <<100, 95>>, <<500, 393>>, <<1000, 632>>, <<2000, 865>>,
               <<3000, 950>>, <<5000, 993>>, <<7000, 999>>, <<14000, 1000>>>>
OneMinusExp(x) ==
    IF x >= ExpPoints[Len(ExpPoints)][1] THEN 1000
    ELSE LET i == CHOOSE k \in 1..(Len(ExpPoints) - 1) :
                      ExpPoints[k][1] <= x /\ x < ExpPoints[k + 1][1]
             lo == ExpPoints[i]
             hi == ExpPoints[i + 1]
         IN  lo[2] + ((x - lo[1]) * (hi[2] - lo[2])) \div (hi[1] - lo[1])

RECURSIVE Log2(_)
Log2(n) == IF n < 2 THEN 0 ELSE 1 + Log2(n \div 2)

\* calculateOutageProbability, lines 88-109
calculateOutageProbability(mode, state) ==
    LET ratio == ((inverseEffectiveSnr(mode, state) \div 1000) * state.snrThreshold)
                     \div 100
    IN  Max(1, Min(999, OneMinusExp(ratio)))

\* calculateErgodicCapacity, lines 111-130: log2(1 + snr)
calculateErgodicCapacity(mode, state) ==
    LET inv == inverseEffectiveSnr(mode, state)
    IN  Log2((1000000 + inv) \div inv)

\* calculateBER, lines 132-156: 0.5 * exp(-0.5 * sqrt(2 snr)^2)
calculateBER(mode, state) ==
    (1000 - OneMinusExp(1000000000 \div inverseEffectiveSnr(mode, state))) \div 2

PerformanceMetrics(outage, capacity, ber) ==
    [outageProbability |-> outage, ergodicCapacity |-> capacity, bitErrorRate |-> ber]

NoMetrics == PerformanceMetrics(0, 0, 0)

\* useState of lines 25-35
InitialMetrics == [dfMetrics |-> NoMetrics, afMetrics |-> NoMetrics]

computeMetrics(mode, state) ==
    PerformanceMetrics(calculateOutageProbability(mode, state),
                       calculateErgodicCapacity(mode, state),
                       calculateBER(mode, state))

\* the effect of lines 37-85 on the state it was rendered with
MetricsEffect(state) ==
    IF state.inputText = "" THEN InitialMetrics
    ELSE [dfMetrics |-> computeMetrics("df", state),
          afMetrics |-> computeMetrics("af", state)]

\* the sliders' values
Distances == {1, 10}
PathLossExponents == {20, 25, 30}
NoisePowers == {1, 10}
SnrThresholds == {1, 10, 100}
SnrValues == {10, 20, 30}

MetricsInit ==
    /\ InitApp
    /\ op = "RelayPerformance"
    /\ args = <<>>
    /\ out = InitialMetrics

\* a dispatch, the render and the effect, which runs when one of its
\* dependencies (line 85) changed
Rendered(state) ==
    /\ op = "RelayPerformance"
    /\ state # semantic
    /\ semantic' = state
    /\ out' = IF \E f \in {"distanceBR", "distanceRD", "pathLossExponent", "noisePower",
                           "snrThreshold", "snrValue", "inputText"} :
                     state[f] # semantic[f]
              THEN MetricsEffect(state)
              ELSE out
    /\ UNCHANGED <<gemini, similarityCache, att, running, latest, lastFinished, nextId,
                   settings, op, args>>

TypeText == \E t \in UserTexts \cup {""} : Rendered(setInputText(semantic, t))
SlideDistanceBR == \E v \in Distances : Rendered(setDistanceBR(semantic, v))
SlideDistanceRD == \E v \in Distances : Rendered(setDistanceRD(semantic, v))
SlidePathLossExponent ==
    \E v \in PathLossExponents : Rendered(setPathLossExponent(semantic, v))
SlideNoisePower == \E v \in NoisePowers : Rendered(setNoisePower(semantic, v))
SlideSnrThreshold == \E v \in SnrThresholds : Rendered(setSnrThreshold(semantic, v))
SlideSNRValue == \E v \in SnrValues : Rendered(setSNRValue(semantic, v))
handleRelayModeChange == \E m \in RelayMode : Rendered(setRelayMode(semantic, m))
handleModeChange == \E m \in TransmissionMode : Rendered(setTransmissionMode(semantic, m))

MetricsNext ==
    \/ TypeText
    \/ SlideDistanceBR
    \/ SlideDistanceRD
    \/ SlidePathLossExponent
    \/ SlideNoisePower
    \/ SlideSnrThreshold
    \/ SlideSNRValue
    \/ handleRelayModeChange
    \/ handleModeChange

MetricsSpec == MetricsInit /\ [][MetricsNext]_vars

OutageInRange(metrics) ==
    metrics.outageProbability >= 1 /\ metrics.outageProbability <= 999

\* C15: in every state the DF and the AF outage probability the evaluator
\* holds lie in [0.001, 0.999], before any text has been entered too.
C15_OutageClamped == OutageInRange(out.dfMetrics) /\ OutageInRange(out.afMetrics)

\* C16: the metrics held are those of the six channel values alone, computed
\* for both modes, whatever the text and the modes.
C16_FunctionOfChannelValues ==
    /\ out.dfMetrics = computeMetrics("df", semantic)
    /\ out.afMetrics = computeMetrics("af", semantic)

-----------------------------------------------------------------------------
(* The relay-active indicator of the flow diagram and of the relay panel.   *)

\* Relay.tsx lines 161-163
relayIsRelayActive(state) ==
    /\ state.transmissionMode = RELAY
    /\ state.semanticSimilarity # NullSimilarity
    /\ state.semanticSimilarity < state.similarityThreshold

\* VectorVisualization.tsx, FlowDiagram, lines 528-530
flowIsRelayActive(state) ==
    /\ state.transmissionMode = RELAY
    /\ state.semanticSimilarity # NullSimilarity
    /\ state.semanticSimilarity < state.similarityThreshold

\* C20: both indicators show the relay active exactly when the path used by
\* the last attempt is the relay path.
C20_IndicatorIsActivePath ==
    /\ relayIsRelayActive(semantic) <=> semantic.activePath = RELAY
    /\ flowIsRelayActive(semantic) <=> semantic.activePath = RELAY

-----------------------------------------------------------------------------
(* getCachedModelSimilarity on its own: args is the sequence of the calls    *)
(* made so far, each with its texts, whether it sent a request, the value it *)
(* returned and the calls that had completed when it started.                *)

\* the number of calls made
MaxCalls == 3

ScoredTexts == UserTexts \cup {""}

CacheInit ==
    /\ InitApp
    /\ op = "getCachedModelSimilarity"
    /\ args = <<>>
    /\ out = Pending

CompletedCalls == {j \in 1..Len(args) : args[j].pc = "returned"}

\* lines 317-328, and calculateModelBasedSimilarity's lines 272-275 for an
\* empty text (no request; the 0 is cached at line 335)
getCachedModelSimilarity(text1, text2) ==
    LET key == cacheKey(text1, text2)
        call == [text1 |-> text1, text2 |-> text2, after |-> CompletedCalls,
                 pc |-> "returned", requested |-> FALSE, value |-> 0]
    IN  /\ op = "getCachedModelSimilarity"
        /\ Len(args) < MaxCalls
        /\ IF key \in DOMAIN similarityCache
           THEN /\ args' = Append(args, [call EXCEPT !.value = similarityCache[key]])
                /\ UNCHANGED similarityCache
           ELSE IF text1 = "" \/ text2 = ""
           THEN /\ args' = Append(args, call)
                /\ similarityCache' = cacheSet(similarityCache, key, 0)
           ELSE /\ args' = Append(args, [call EXCEPT !.pc = "awaiting",
                                                     !.requested = TRUE])
                /\ UNCHANGED similarityCache
        /\ UNCHANGED <<semantic, gemini, att, running, latest, lastFinished, nextId,
                       settings, op, out>>

\* the request of call i settles: lines 332-337, or the catch of lines 338-343
Settles(i, value) ==
    /\ op = "getCachedModelSimilarity"
    /\ args[i].pc = "awaiting"
    /\ args' = [args EXCEPT ![i].pc = "returned", ![i].value = value]
    /\ similarityCache' =
          cacheSet(similarityCache, cacheKey(args[i].text1, args[i].text2), value)
    /\ UNCHANGED <<semantic, gemini, att, running, latest, lastFinished, nextId,
                   settings, op, out>>

CallGetCachedModelSimilarity ==
    \E text1, text2 \in ScoredTexts : getCachedModelSimilarity(text1, text2)

ScorerResponds ==
    \E i \in 1..Len(args) : \E answer \in ScorerAnswers : Settles(i, answer)

ScorerFails ==
    \E i \in 1..Len(args) :
        Settles(i, calculateAdvancedSemanticSimilarity(args[i].text1, args[i].text2))

CacheNext ==
    \/ CallGetCachedModelSimilarity
    \/ ScorerResponds
    \/ ScorerFails

CacheSpec == CacheInit /\ [][CacheNext]_vars

\* C17: a call that starts after a call for the same unordered pair has
\* completed returns that call's value and sends no request.
C17_Memoized ==
    op = "getCachedModelSimilarity" =>
        \A i \in CompletedCalls : \A j \in args[i].after :
            cacheKey(args[i].text1, args[i].text2) = cacheKey(args[j].text1, args[j].text2)
                => /\ ~args[i].requested
                   /\ args[i].value = args[j].value

-----------------------------------------------------------------------------
(* services/openaiService.ts on its own.  A text is the sequence of its     *)
(* character codes, a message the sequence of its words; args is the        *)
(* service with its call in progress, out the call's result.                *)

EMBEDDING_SIZE == 1536

\* '', 'a', 'ab', 'ba'
ServiceTexts == {<<>>, <<97>>, <<97, 98>>, <<98, 97>>}
ServiceKeys == {"", "sk-key"}

\* lines 112-115: the sum of the character codes
seedOf(text) == Sum(text, Len(text))

\* getMockEmbedding, lines 107-126: EMBEDDING_SIZE values drawn from the seed
\* and normalised
openAIMockEmbedding(text) ==
    [kind |-> "mock", seed |-> seedOf(text), length |-> EMBEDDING_SIZE]

\* what the embeddings endpoint may answer with
ApiEmbeddings == {[kind |-> "api", seed |-> 0, length |-> n] : n \in {3, EMBEDDING_SIZE}}

\* line 65
MockSentence ==
    <<"This", "is", "a", "mock", "reconstructed", "sentence.", "Add", "your",
      "OpenAI", "API", "key", "for", "real", "results.">>

\* line 99
ErrorSentence ==
    <<"Error", "reconstructing", "text.", "Please", "check", "your", "API", "key",
      "and", "try", "again.">>

\* what the chat endpoint may answer with
ApiSentences == {<<>>, <<"hello", "world">>}

\* a slip: the catch of getEmbedding rethrows
embeddingErrorRethrown(text) == Threw("Error getting embedding")

\* lines 49-53
embeddingErrorCaught(text) == Return(openAIMockEmbedding(text))

\* lines 97-100
generationErrorCaught == Return(ErrorSentence)

IdleService ==
    [apiKey |-> "", method |-> "none", input |-> <<>>, pc |-> "idle",
     keyAtCall |-> "", requests |-> 0, response |-> "none", body |-> <<>>,
     calls |-> 0]

OpenAIInit ==
    /\ InitApp
    /\ op = "OpenAIService"
    /\ args = IdleService
    /\ out = Pending

OpenAIStep(service, result) ==
    /\ op = "OpenAIService"
    /\ args' = service
    /\ out' = result
    /\ UNCHANGED <<appVars, op>>

\* setApiKey, lines 17-19
openAISetApiKey ==
    \E key \in ServiceKeys :
        /\ key # args.apiKey
        /\ OpenAIStep([args EXCEPT !.apiKey = key], out)

\* a call, to its return or to its request
OpenAICall(method, input, mockResult) ==
    LET call == [args EXCEPT !.method = method, !.input = input,
                             !.keyAtCall = args.apiKey, !.response = "none",
                             !.body = <<>>,
                             !.calls = @ + 1]
    IN  /\ args.pc # "awaiting"
        /\ args.calls < MaxCalls
        /\ IF args.apiKey = ""
           THEN OpenAIStep([call EXCEPT !.pc = "done", !.requests = 0], mockResult)
           ELSE OpenAIStep([call EXCEPT !.pc = "awaiting", !.requests = 1], Pending)

\* getEmbedding(text), lines 26-46
openAIGetEmbedding ==
    /\ op = "OpenAIService"
    /\ \E text \in ServiceTexts :
          OpenAICall("getEmbedding", text, Return(openAIMockEmbedding(text)))

\* generateTextFromVector(vector), lines 61-94
openAIGenerateTextFromVector ==
    /\ op = "OpenAIService"
    /\ \E vector \in Vectors :
          OpenAICall("generateTextFromVector", vector, Return(MockSentence))

OpenAIResponds(response, body, result) ==
    /\ args.pc = "awaiting"
    /\ OpenAIStep([args EXCEPT !.pc = "done", !.response = response, !.body = body],
                  result)

\* axios.post resolved with a body: line 48
EmbeddingsEndpointAnswers ==
    /\ args.method = "getEmbedding"
    /\ \E embedding \in ApiEmbeddings :
          OpenAIResponds("ok", embedding, Return(embedding))

\* axios.post rejected, or resolved with a body without data[0]
EmbeddingsEndpointFails ==
    /\ args.method = "getEmbedding"
    /\ OpenAIResponds("failed", <<>>, embeddingErrorCaught(args.input))

\* line 96
ChatEndpointAnswers ==
    /\ args.method = "generateTextFromVector"
    /\ \E sentence \in ApiSentences : OpenAIResponds("ok", sentence, Return(sentence))

ChatEndpointFails ==
    /\ args.method = "generateTextFromVector"
    /\ OpenAIResponds("failed", <<>>, generationErrorCaught)

OpenAINext ==
    \/ openAISetApiKey
    \/ openAIGetEmbedding
    \/ openAIGenerateTextFromVector
    \/ EmbeddingsEndpointAnswers
    \/ EmbeddingsEndpointFails
    \/ ChatEndpointAnswers
    \/ ChatEndpointFails

OpenAISpec == OpenAIInit /\ [][OpenAINext]_vars

Contains(message, word) == \E i \in 1..Len(message) : message[i] = word

IsMockEmbedding(value) == value.kind = "mock" /\ value.length = 1536

\* C18: neither method of the OpenAI service rejects.  Without a key the mock
\* result is returned and no request is sent; with a key the endpoint's value
\* is returned when the request succeeds, and when it fails getEmbedding
\* returns a mock embedding of EMBEDDING_SIZE values and
\* generateTextFromVector a message containing 'Error'.
C18_NeverRejects ==
    (op = "OpenAIService" /\ args.pc = "done") =>
        /\ out.returned /\ ~out.threw
        /\ args.keyAtCall = "" =>
              /\ args.requests = 0
              /\ args.method = "getEmbedding" => IsMockEmbedding(out.value)
              /\ args.method = "generateTextFromVector" => out.value # <<>>
        /\ (args.keyAtCall # "" /\ args.response = "ok") =>
              out.value = args.body
        /\ (args.keyAtCall # "" /\ args.response = "failed") =>
              /\ args.method = "getEmbedding" => IsMockEmbedding(out.value)
              /\ args.method = "generateTextFromVector" => Contains(out.value, "Error")

\* a getEmbedding call with a key whose request failed
C18_Witness ==
    /\ op = "OpenAIService" /\ args.pc = "done"
    /\ args.method = "getEmbedding" /\ args.keyAtCall # ""
    /\ args.response = "failed" /\ out.returned

-----------------------------------------------------------------------------
(* GeminiService.getEmbedding on its own, texts as character codes.  args   *)
(* is the service with its call in progress; fallbacks is the set of        *)
(* <<text, vector>> the mock branch or the catch has returned.              *)

\* getMockEmbedding, geminiService.ts lines 258-279
geminiMockEmbedding(text) ==
    [kind |-> "mock", seed |-> seedOf(text), length |-> EMBEDDING_SIZE]

\* getSimpleVectorHash, lines 286-290: the first five values
getSimpleVectorHash(vector) == <<vector.kind, vector.seed>>

\* the summary the model answers with: 's'
ServiceSummary == <<115>>

\* a slip: the fallback embeds what the request would have embedded (line 64)
fallbackOfTextToEmbed(service, text) ==
    IF service.semanticSummary # <<>> THEN service.semanticSummary ELSE text

\* the argument of getMockEmbedding at lines 56 and 77
fallbackOf(service, text) == text

\* lastOriginalVector before the first mock embedding: null
NoVector == [kind |-> "none", seed |-> 0, length |-> 0]

IdleGemini ==
    [apiKey |-> "", lastOriginalText |-> <<>>, lastOriginalVector |-> NoVector,
     semanticSummary |-> <<>>, mockInputTextMap |-> {},
     text |-> <<>>, pc |-> "idle", fellBack |-> FALSE, repeated |-> FALSE,
     fallbacks |-> {}, calls |-> 0]

GeminiInit ==
    /\ InitApp
    /\ op = "GeminiService"
    /\ args = IdleGemini
    /\ out = Pending

GeminiStep(service, result) ==
    /\ op = "GeminiService"
    /\ args' = service
    /\ out' = result
    /\ UNCHANGED <<appVars, op>>

\* the call returns the pseudo-vector
FellBack(service, vector) ==
    GeminiStep([service EXCEPT !.pc = "done", !.fellBack = TRUE,
                               !.repeated = \E p \in service.fallbacks :
                                               p[1] = service.text,
                               !.fallbacks = @ \cup {<<service.text, vector>>}],
               Return(vector))

\* a slip: an entry of mockInputTextMap is kept when its hash is stored again
MockBranchKeepingFirst(service) ==
    LET mockVector == geminiMockEmbedding(fallbackOf(service, service.text))
        vectorHash == getSimpleVectorHash(mockVector)
    IN  FellBack([service EXCEPT
                     !.mockInputTextMap =
                         IF \E e \in @ : e[1] = vectorHash THEN @
                         ELSE @ \cup {<<vectorHash, service.text>>},
                     !.lastOriginalVector = mockVector],
                 mockVector)

\* lines 53-61
MockBranch(service) ==
    LET mockVector == geminiMockEmbedding(fallbackOf(service, service.text))
        vectorHash == getSimpleVectorHash(mockVector)
    IN  FellBack([service EXCEPT
                     !.mockInputTextMap =
                         {e \in @ : e[1] # vectorHash} \cup {<<vectorHash, service.text>>},
                     !.lastOriginalVector = mockVector],
                 mockVector)

\* setApiKey, lines 27-29
geminiSetApiKey ==
    \E key \in ServiceKeys :
        /\ key # args.apiKey
        /\ GeminiStep([args EXCEPT !.apiKey = key], out)

\* getEmbedding(text), lines 36-61, to its return or to its first request
geminiGetEmbedding ==
    \E text \in ServiceTexts :
        LET service == [args EXCEPT !.lastOriginalText = text, !.text = text,
                                    !.fellBack = FALSE, !.repeated = FALSE,
                                    !.calls = @ + 1]
        IN  /\ args.pc \in {"idle", "done", "generated", "regenerated"}
            /\ args.calls < MaxCalls
            /\ IF args.apiKey # ""
               THEN GeminiStep([service EXCEPT !.pc = "summary"], Pending)
               ELSE MockBranch(service)

\* generateSemanticSummary settles, lines 43-49, and the key is read again at
\* line 53
SummarySettles ==
    /\ args.pc = "summary"
    /\ \E ok \in BOOLEAN :
          LET service == IF ok THEN [args EXCEPT !.semanticSummary = ServiceSummary]
                         ELSE args
          IN  IF service.apiKey = "" THEN MockBranch(service)
              ELSE GeminiStep([service EXCEPT !.pc = "embedding"], Pending)

\* line 73
EmbedTextAnswers ==
    /\ args.pc = "embedding"
    /\ \E embedding \in ApiEmbeddings :
          GeminiStep([args EXCEPT !.pc = "done"], Return(embedding))

\* the catch of lines 74-78
EmbedTextFails ==
    /\ args.pc = "embedding"
    /\ FellBack(args, geminiMockEmbedding(fallbackOf(args, args.text)))

GeminiNext ==
    \/ geminiSetApiKey
    \/ geminiGetEmbedding
    \/ SummarySettles
    \/ EmbedTextAnswers
    \/ EmbedTextFails

GeminiSpec == GeminiInit /\ [][GeminiNext]_vars

\* C19: a getEmbedding call whose encoder was unavailable or failed returns,
\* and two such calls with the same text returned the same vector, whatever
\* was called before and whatever the service holds.
C19_FallbackIsFunctionOfText ==
    op = "GeminiService" =>
        /\ (args.pc = "done" /\ args.fellBack) => out.returned
        /\ \A p, q \in args.fallbacks : p[1] = q[1] => p[2] = q[2]

\* a second fallback for a text, the first without and this one with a key
\* and a stored summary
C19_Witness ==
    /\ op = "GeminiService" /\ args.pc = "done" /\ args.fellBack /\ args.repeated
    /\ args.apiKey # "" /\ args.semanticSummary # <<>>
    /\ args.mockInputTextMap # {}

-----------------------------------------------------------------------------
(* Properties of one attempt's steps *)

\* attempt a takes this step
Acts(a) == att'[a] # att[a]

\* the positions of an attempt from its reconstruction call on
Reconstructing == {"decode", "physRecon", "similarity"}

\* C21: when an attempt issues its vector-reconstruction call the store's
\* activePath is the one it decided, and no step of the attempt from that
\* call on changes activePath.
C21_DecidedBeforeReconstruction ==
    [][\A a \in Attempts :
          /\ (Acts(a) /\ att[a].pc = "decodeVector") =>
                /\ semantic.activePath = IF att[a].useRelay THEN RELAY ELSE LOS
                /\ semantic'.activePath = semantic.activePath
          /\ (Acts(a) /\ att[a].pc \in Reconstructing) =>
                semantic'.activePath = semantic.activePath]_vars

\* an attempt on the relay path awaits the measured similarity, its vector
\* reconstructed
C21_Witness ==
    \E a \in Attempts :
        /\ att[a].pc = "similarity" /\ att[a].useRelay
        /\ att[a].semanticReconstructedText # ""
        /\ semantic.activePath = RELAY

\* the positions of an attempt inside encodeText
Encoding == {"summary", "embedSummary", "embedding", "stalled"}

\* what an iteration leaves alone
EncodedUnchanged ==
    /\ semantic'.originalVector = semantic.originalVector
    /\ semantic'.semanticSummary = semantic.semanticSummary
    /\ semantic'.inputText = semantic.inputText
    /\ gemini'.lastOriginalText = gemini.lastOriginalText

\* C23: an iterating attempt never calls the encoder, and none of its steps,
\* from its start to its completion, changes originalVector, semanticSummary
\* or inputText.
C23_IterationSkipsEncoding ==
    [][/\ HandleContinueIteration =>
             /\ att'[nextId].pc \notin Encoding
             /\ EncodedUnchanged
       /\ \A a \in Attempts :
             (Acts(a) /\ att[a].isIteration) =>
                 /\ att'[a].pc \notin Encoding
                 /\ EncodedUnchanged]_vars

\* an iterating attempt has completed
C23_Witness ==
    /\ lastFinished.id # 0 /\ lastFinished.isIteration
    /\ semantic.iterationCount > 0
    /\ semantic.originalVector # NullVector

\* C24: isLoading is true whenever an encodeText or processCommunication call
\* is pending and false when none is.
C24_LoadingWhilePending ==
    semantic.isLoading <=> \E a \in Attempts : InFlight(att[a])

\* C26: once an attempt has completed and no attempt is under way, the text
\* the Receiver displays is the reconstructedText that attempt reported.
C26_ReceiverShowsReportedText ==
    (/\ lastFinished.id # 0 /\ ~lastFinished.rejected
     /\ running = 0
     /\ \A a \in Attempts : ~InFlight(att[a]))
    => storeFinalReconstructedText = lastFinished.result.reconstructedText

-----------------------------------------------------------------------------
(* Properties of the similarity cache *)

\* C27: no unordered pair is requested from the remote scorer twice, also
\* when two calls for it overlap.
C27_OneRequestPerPair ==
    op = "getCachedModelSimilarity" =>
        \A i, j \in 1..Len(args) :
            (/\ i # j
             /\ cacheKey(args[i].text1, args[i].text2)
                    = cacheKey(args[j].text1, args[j].text2))
            => ~(args[i].requested /\ args[j].requested)

\* C28: a value held in the cache for a pair of non-empty texts is a value
\* the remote scorer returned.
C28_CacheHoldsScorerValues ==
    op = "getCachedModelSimilarity" =>
        \A key \in DOMAIN similarityCache :
            "" \notin key => similarityCache[key] \in ScorerAnswers

-----------------------------------------------------------------------------
(* The cache key of lines 321-322 as the string it is.  A text is a sequence *)
(* of characters, Bar standing for the three characters '|||'.               *)

\* the longest text tried
MaxKeyText == 2

\* 'a', 'b' and '|||' by their first character codes
Bar == 124
KeyCharacters == {97, 98, Bar}
KeyTexts == UNION {[1..n -> KeyCharacters] : n \in 0..MaxKeyText}

\* the order of Array.prototype.sort on strings: by code units, a prefix first
RECURSIVE Precedes(_, _)
Precedes(x, y) ==
    IF x = <<>> THEN TRUE
    ELSE IF y = <<>> THEN FALSE
    ELSE IF Head(x) # Head(y) THEN Head(x) < Head(y)
    ELSE Precedes(Tail(x), Tail(y))

\* line 321
textsArray(text1, text2) ==
    IF Precedes(text1, text2) THEN <<text1, text2>> ELSE <<text2, text1>>

\* line 322: textsArray.join('|||')
joinedCacheKey(text1, text2) ==
    textsArray(text1, text2)[1] \o <<Bar>> \o textsArray(text1, text2)[2]

KeyInit ==
    /\ InitApp
    /\ op = "cacheKey"
    /\ args \in KeyTexts \X KeyTexts \X KeyTexts \X KeyTexts
    /\ out = Pending

\* the keys of the pairs (args[1], args[2]) and (args[3], args[4])
MakeKeys ==
    /\ op = "cacheKey"
    /\ ~Completed(out)
    /\ out' = Return(<<joinedCacheKey(args[1], args[2]),
                       joinedCacheKey(args[3], args[4])>>)
    /\ UNCHANGED <<appVars, op, args>>

KeyNext == MakeKeys

KeySpec == KeyInit /\ [][KeyNext]_vars

\* C29: two different unordered pairs of texts never have the same key.
C29_KeyInjective ==
    (op = "cacheKey" /\ Completed(out) /\ out.value[1] = out.value[2])
    => {args[1], args[2]} = {args[3], args[4]}

-----------------------------------------------------------------------------
(* GeminiService without a key: getEmbedding followed by                    *)
(* generateTextFromVector on a vector the service returned.                 *)

\* 'Successfully reconstructed message' (line 179), by its first character
DefaultMessage == <<83>>

\* mockInputTextMap.get(vectorHash), undefined read as the empty text
storedText(service, vectorHash) ==
    IF \E e \in service.mockInputTextMap : e[1] = vectorHash
    THEN (CHOOSE e \in service.mockInputTextMap : e[1] = vectorHash)[2]
    ELSE <<>>

\* introduceMinorErrors, lines 295-315, on a text of one word: kept, cut by
\* a character when longer than three, or with an 's' added
introduceMinorErrors(text) ==
    {text, text \o <<115>>}
        \cup (IF Len(text) > 3 THEN {SubSeq(text, 1, Len(text) - 1)} ELSE {})

\* the texts generateTextFromVector(vector) can return without a key, lines
\* 140-180; the cosine similarity of two different pseudo-vectors is left open
mockGenerateTextFromVector(service, vector) ==
    LET originalText == storedText(service, getSimpleVectorHash(vector))
    IN  IF originalText # <<>> THEN {originalText}
        ELSE IF service.lastOriginalText # <<>> /\ service.lastOriginalVector # NoVector
        THEN IF vector = service.lastOriginalVector
             THEN {service.lastOriginalText}
             ELSE {service.lastOriginalText}
                      \cup introduceMinorErrors(service.lastOriginalText)
        ELSE IF service.lastOriginalText # <<>> THEN {service.lastOriginalText}
        ELSE {DefaultMessage}

\* generateTextFromVector on the vector getEmbedding has just returned
generateFromReturned ==
    /\ args.pc = "done" /\ args.apiKey = "" /\ out.returned
    /\ \E text \in mockGenerateTextFromVector(args, out.value) :
          GeminiStep([args EXCEPT !.pc = "generated"], Return(text))

\* generateTextFromVector on a vector an earlier getEmbedding returned
generateFromEarlier ==
    /\ args.pc = "done" /\ args.apiKey = ""
    /\ \E p \in args.fallbacks :
          /\ p[1] # args.text
          /\ \E text \in mockGenerateTextFromVector(args, p[2]) :
                GeminiStep([args EXCEPT !.pc = "regenerated"], Return(text))

MockNext ==
    \/ geminiGetEmbedding
    \/ generateFromReturned
    \/ generateFromEarlier

MockSpec == GeminiInit /\ [][MockNext]_vars

\* C30 as stated: without a key, generateTextFromVector applied to the vector
\* getEmbedding(t) has just returned gives t, for every text t and whatever
\* texts were embedded before.
C30_ReconstructionInvertsEncoding ==
    (op = "GeminiService" /\ args.pc = "generated") => out.value = args.text

\* C30: without a key, generateTextFromVector applied to the vector
\* getEmbedding(t) has just returned gives t, for every text t that is not
\* empty and whatever texts were embedded before.
C30_InvertsEncodingOfNonEmpty ==
    (op = "GeminiService" /\ args.pc = "generated" /\ args.text # <<>>)
    => out.value = args.text

\* the text comes back after a text with the same hash was embedded before it
C30_Witness ==
    /\ op = "GeminiService" /\ args.pc = "generated" /\ args.text = <<98, 97>>
    /\ <<<<97, 98>>, geminiMockEmbedding(<<97, 98>>)>> \in args.fallbacks
    /\ out.value = <<98, 97>>

-----------------------------------------------------------------------------
(* Four handler invocations, so that a Transmit can be awaiting its encoder *)
(* while isLoading is false: the sliders and mode toggles are left alone.   *)

\* handler invocations in one behaviour of RaceSpec
MaxRaceAttempts == 4

RaceAttempts == 1..MaxRaceAttempts

RaceInit ==
    /\ semantic = initialState
    /\ gemini = initialGemini
    /\ similarityCache = [key \in {} |-> 0]
    /\ att = [a \in RaceAttempts |-> IdleAttempt]
    /\ running = 0
    /\ latest = 0
    /\ lastFinished = NoneFinished
    /\ nextId = 1
    /\ settings = 0
    /\ op = NoCall
    /\ args = <<>>
    /\ out = Pending

\* the handler of a button starts invocation nextId
Invokes(c) ==
    /\ running = 0
    /\ nextId <= MaxRaceAttempts
    /\ Commit(nextId, c)
    /\ nextId' = nextId + 1
    /\ UNCHANGED settings

\* TextInput: the Transmit button, disabled while isLoading
RaceSubmit ==
    \E localText \in UserTexts :
        /\ ~semantic.isLoading
        /\ Invokes(Submit(Ctx(nextId), localText))

\* ChannelSimulation: the Apply Noise button
RaceApplyNoise ==
    /\ ~semantic.isLoading /\ semantic.originalVector # NullVector
    /\ Invokes(StartAttempt(Ctx(nextId), "", FALSE, 0))

\* Receiver: the Continue to iterate button
RaceContinueIteration ==
    /\ canContinue
    /\ Invokes(StartAttempt(Ctx(nextId), storeFinalReconstructedText, TRUE,
                            semantic.iterationCount + 1))

\* a step of an invocation, every collaborator answering
RaceStep ==
    \E a \in RaceAttempts :
        /\ AttemptStep(a)
        /\ att'[a].failed = {}
        /\ lastFinished'.failed = {}

RaceNext ==
    \/ RaceSubmit
    \/ RaceApplyNoise
    \/ RaceContinueIteration
    \/ RaceStep
    \/ SetApiKey

RaceSpec == RaceInit /\ [][RaceNext]_vars

-----------------------------------------------------------------------------
(* Properties of what one invocation sends and transmits *)

\* processCommunication has sent its bit-channel request and has not finished
Sent(a) == Started(a) /\ a.pc \notin Finished \cup {"hung"}

\* the summaries getSemanticSummary resolves to for a text
SummariesOf(text) == {MockSummary(text), SummaryOnError(text), LlmSummary}

\* C22: the text an attempt sends to the bit-channel backend is a summary of
\* its own input text when the attempt is fresh, and the text handed over to
\* it when it iterates.
C22_SendsSummaryOfOwnText ==
    \A a \in DOMAIN att :
        Sent(att[a]) =>
            IF att[a].isIteration
            THEN att[a].textToTransmit = att[a].textToProcess
            ELSE att[a].textToTransmit \in SummariesOf(att[a].textToProcess)

\* C25: the vector a fresh attempt on a text passes through the channels
\* encodes that text.
C25_TransmitsEncodingOfOwnText ==
    \A a \in DOMAIN att :
        (Sent(att[a]) /\ ~att[a].isIteration /\ att[a].noisyLOSVector # NullVector)
        => att[a].noisyLOSVector.of = att[a].textToProcess

====
